---------------------------- MODULE Spec2Model ----------------------------
(***************************************************************************)
(* Model of src/src/main.cpp (calculating_sine): the driver main, the      *)
(* timing harness time_calculations and the accuracy sampler write_data.   *)
(*                                                                         *)
(* Scaling.  The source works on 32-bit patterns and IEEE-754 binary32.    *)
(* The model keeps the structure and narrows the widths:                   *)
(*   - a bit pattern has Bits bits (32 in the source), a std::size_t has   *)
(*     2*Bits bits (64 in the source);                                     *)
(*   - a float of the accuracy sampler is an integer number of units,      *)
(*     Scale units making 1.0, kept to MantBits significant bits (24 in    *)
(*     the source) by round-to-nearest, ties-to-even, after every          *)
(*     arithmetic operation, as the hardware does;                         *)
(*   - the step of the sampler is 0.7 instead of 0.00001, so that a run    *)
(*     takes about ten samples instead of about 627 thousand.  As in the   *)
(*     source the step is larger than the spacing of the floats near 2*pi  *)
(*     and is not a whole number of such spacings.                         *)
(***************************************************************************)
EXTENDS Integers, Sequences, FiniteSets, TLC

VARIABLES
    pc,          \* program position: which statement runs next
    ret,         \* where the running harness returns to
    main_pc,     \* main: index of the next statement of MainProgram
    console,     \* std::cout: the labels of the lines printed so far
    files,       \* the file system: file name -> content on disk, or NoFile
    wd_runs,     \* calculator -> number of write_data calls made with it
    tc_runs,     \* calculator -> number of time_calculations calls made with it
    runs,        \* number of harness calls made so far
    open_fails,  \* number of opens the file system has refused so far
    file_name,   \* write_data: parameter file_name
    calculator,  \* write_data / time_calculations: parameter calculator
    out_open,    \* write_data: out.is_open()
    out_fail,    \* write_data: out.fail(), the stream's error state
    out_buf,     \* write_data: records in out's stream buffer, not yet on disk
    f,           \* write_data: local f
    samples,     \* write_data: the inputs sampled so far in this run
    nwrites,     \* write_data: number of out.write calls so far in this run
    last,        \* file name -> what the last completed write_data run left
    i,           \* time_calculations: loop counter i
    time,        \* time_calculations: local time (nanoseconds)
    calls,       \* time_calculations: bit patterns passed to calculator so far
    result       \* the value time_calculations returned, until it is used

vars == <<pc, ret, main_pc, console, files, wd_runs, tc_runs, runs, open_fails,
          file_name, calculator, out_open, out_fail, out_buf, f, samples,
          nwrites, last, i, time, calls, result>>

wd_vars == <<file_name, out_open, out_fail, out_buf, f, samples, nwrites>>
tc_vars == <<i, time, calls, result>>

---------------------------------------------------------------------------
(* Bounds of the model.                                                    *)

\* Width of a bit pattern (std::uint32_t in the source).
Bits == 3

\* Significant bits of a float (24 in the source).
MantBits == 4

\* Units per 1.0 in the sampler's floats.
Scale == 7

\* Records the stream buffer of an std::ofstream holds before it overflows
\* to disk.
BufCap == 4

\* Number of harness calls a test program makes.
MaxRuns == 2

\* Number of opens the file system refuses in one execution.
MaxOpenFails == 1

\* Readings of std::chrono::high_resolution_clock, in ticks: an earlier and
\* a later instant, which is all the order of two readings needs.
Ticks == {0, 1}

---------------------------------------------------------------------------
(* Arithmetic.                                                             *)

RECURSIVE Pow(_, _)
Pow(b, n) == IF n = 0 THEN 1 ELSE b * Pow(b, n - 1)

Abs(x) == IF x < 0 THEN -x ELSE x

\* Spacing of the representable magnitudes around q.
RECURSIVE Ulp(_)
Ulp(q) == IF q < Pow(2, MantBits) THEN 1 ELSE 2 * Ulp(q \div 2)

\* The representable magnitude nearest to num / den (num >= 0, den > 0),
\* ties to the even significand.
RoundMag(num, den) ==
    LET q  == num \div den
        u  == Ulp(q)
        lo == (q \div u) * u
        hi == lo + u
    IN  IF 2 * num < (lo + hi) * den THEN lo
        ELSE IF 2 * num > (lo + hi) * den THEN hi
        ELSE IF (lo \div u) % 2 = 0 THEN lo ELSE hi

\* The float nearest to the rational num / den units (den > 0).  The
\* operands are bound to their values first, so that each is computed once.
RoundRat(num, den) ==
    CHOOSE r \in {IF n < 0 THEN -RoundMag(-n, d) ELSE RoundMag(n, d) :
                     n \in {num}, d \in {den}} : TRUE

\* A literal such as 6.0f: the float nearest to n.
Lit(n) == RoundRat(n * Scale, 1)

FAdd(a, b) == RoundRat(a + b, 1)
FSub(a, b) == RoundRat(a - b, 1)
FMul(a, b) == RoundRat(a * b, Scale)
FDiv(a, b) == RoundRat(a * Scale, b)
FPow(a, n) == RoundRat(Pow(a, n), Pow(Scale, n - 1))
FAbs(a) == Abs(a)

\* std::numbers::pi_v<float>: pi (355/113 to seven digits) rounded to a float.
pi_v == RoundRat(355 * Scale, 113)

\* (mutant) A step of 0.1, below half the spacing of the floats near 2*pi.
interval_below_spacing == RoundRat(1 * Scale, 10)

\* write_data: interval and the loop's limit 2.0f * pi.
interval == RoundRat(7 * Scale, 10)
TwoPi == FMul(Lit(2), pi_v)

\* std::sin on a float: the sine (Bhaskara's rational approximation, exact
\* to the model's precision), rounded to a float.
SinHalf(t) ==
    LET x == t * (pi_v - t)
    IN  RoundRat(16 * x * Scale, 5 * pi_v * pi_v - 4 * x)

Sin(theta) ==
    LET t == Abs(theta) % (2 * pi_v)
        s == IF t <= pi_v THEN SinHalf(t) ELSE -SinHalf(t - pi_v)
    IN  IF theta < 0 THEN -s ELSE s


---------------------------------------------------------------------------
(* The calculators (lines 85-262).  Each is named as in the source.        *)

standard_calculator(theta) == Sin(theta)

\* fsin: the sine, computed in extended precision and stored as a float.
asm_calculator(theta) == Sin(theta)

\* Called by main (lines 328, 343) and defined nowhere in the source: the
\* Maclaurin series cut before its first term.
maclaurin_0_calculator(theta) == 0

maclaurin_1_calculator(theta) == theta

maclaurin_2_calculator(theta) == FSub(theta, FDiv(FPow(theta, 3), Lit(6)))

maclaurin_3_calculator(theta) ==
    FAdd(FSub(theta, FDiv(FPow(theta, 3), Lit(6))),
         FDiv(FPow(theta, 5), Lit(120)))

chebyshev_0_calculator(theta) == Lit(1)

chebyshev_1_calculator(theta) == theta

chebyshev_2_calculator(theta) == FSub(FMul(Lit(2), FPow(theta, 2)), Lit(1))

chebyshev_3_calculator(theta) ==
    FSub(FMul(Lit(3), FPow(theta, 3)), FMul(Lit(3), theta))

\* Calculators returning one float, and those returning a (sine, cosine)
\* tuple, that main names.  (maclaurin_4_calculator, lines 163-167, is never
\* called.)
SingleCalculators ==
    {"standard_calculator", "asm_calculator",
     "maclaurin_0_calculator", "maclaurin_1_calculator",
     "maclaurin_2_calculator", "maclaurin_3_calculator",
     "chebyshev_0_calculator", "chebyshev_1_calculator",
     "chebyshev_2_calculator", "chebyshev_3_calculator"}

PairCalculators == {"standard_sin_cos_calculator", "asm_sin_cos_calculator"}

Calculators == SingleCalculators \cup PairCalculators

\* A call through the float (*calculator)(float) pointer.
Call(c, theta) ==
    CASE c = "standard_calculator"    -> standard_calculator(theta)
      [] c = "asm_calculator"         -> asm_calculator(theta)
      [] c = "maclaurin_0_calculator" -> maclaurin_0_calculator(theta)
      [] c = "maclaurin_1_calculator" -> maclaurin_1_calculator(theta)
      [] c = "maclaurin_2_calculator" -> maclaurin_2_calculator(theta)
      [] c = "maclaurin_3_calculator" -> maclaurin_3_calculator(theta)
      [] c = "chebyshev_0_calculator" -> chebyshev_0_calculator(theta)
      [] c = "chebyshev_1_calculator" -> chebyshev_1_calculator(theta)
      [] c = "chebyshev_2_calculator" -> chebyshev_2_calculator(theta)
      [] c = "chebyshev_3_calculator" -> chebyshev_3_calculator(theta)


---------------------------------------------------------------------------
(* main (lines 323-358): its statements, in program order.                 *)

Stmt(op, arg, calc) == [op |-> op, arg |-> arg, calc |-> calc]

\* (mutant) main also samples the baseline against itself.
MainProgramBaselineSampled ==
    << Stmt("print", "starting accuracy tests", ""),
       Stmt("write_data", "standard_accuracy", "standard_calculator"),
       Stmt("write_data", "asm_accuracy", "asm_calculator"),
       Stmt("time", "standard: ", "standard_calculator"),
       Stmt("time", "asm: ", "asm_calculator") >>

MainProgram ==
    << Stmt("print", "starting accuracy tests", ""),
       Stmt("write_data", "asm_accuracy", "asm_calculator"),
       Stmt("write_data", "maclaurin_0_accuracy", "maclaurin_0_calculator"),
       Stmt("write_data", "maclaurin_1_accuracy", "maclaurin_1_calculator"),
       Stmt("write_data", "maclaurin_2_accuracy", "maclaurin_2_calculator"),
       Stmt("write_data", "maclaurin_3_accuracy", "maclaurin_3_calculator"),
       Stmt("write_data", "chebyshev_0_accuracy", "chebyshev_0_calculator"),
       Stmt("write_data", "chebyshev_1_accuracy", "chebyshev_1_calculator"),
       Stmt("write_data", "chebyshev_2_accuracy", "chebyshev_2_calculator"),
       Stmt("write_data", "chebyshev_3_accuracy", "chebyshev_3_calculator"),
       Stmt("print", "accuracy tests done", ""),
       Stmt("print", "starting performance tests", ""),
       Stmt("time", "standard: ", "standard_calculator"),
       Stmt("time", "asm: ", "asm_calculator"),
       Stmt("time", "maclaruin_0: ", "maclaurin_0_calculator"),
       Stmt("time", "maclaruin_1: ", "maclaurin_1_calculator"),
       Stmt("time", "maclaruin_2: ", "maclaurin_2_calculator"),
       Stmt("time", "maclaruin_3: ", "maclaurin_3_calculator"),
       Stmt("time", "chebyshev_0: ", "chebyshev_0_calculator"),
       Stmt("time", "chebyshev_1: ", "chebyshev_1_calculator"),
       Stmt("time", "chebyshev_2: ", "chebyshev_2_calculator"),
       Stmt("time", "chebyshev_3: ", "chebyshev_3_calculator"),
       Stmt("time", "standard sincos: ", "standard_sin_cos_calculator"),
       Stmt("time", "asm sincos: ", "asm_sin_cos_calculator"),
       Stmt("print", "performance tests done", "") >>

\* The artifacts main names.
FileNames ==
    {MainProgram[k].arg : k \in {j \in DOMAIN MainProgram :
                                    MainProgram[j].op = "write_data"}}

\* The file names and the older content a test program runs write_data on.
HarnessFiles == {"asm_accuracy"}
NoFile == [exists |-> FALSE, data |-> << >>]
Stale == [exists |-> TRUE, data |-> << Lit(1), Lit(2) >>]
NoRun == [calc |-> "", content |-> NoFile]

---------------------------------------------------------------------------
(* write_data (lines 303-319).                                             *)

\* (mutant) The baseline is not subtracted.
RecordNoBaseline(c, x) == FAbs(Call(c, x))

\* Line 312: the record of one sample.
Record(c, x) == FAbs(FSub(Call(c, x), standard_calculator(x)))

\* (mutant) The limit itself is excluded.
WdCondStrict(x) == x < TwoPi

\* Line 316: the loop's condition.
WdCond(x) == x <= TwoPi

\* Line 305: std::ofstream's constructor opened the file, which creates or
\* truncates it (std::ios::out without app).
OpenTruncate(disk) == [exists |-> TRUE, data |-> << >>]

\* Line 313: out.write on an open stream puts the record in the stream
\* buffer; a full buffer goes to disk.  Gives <<content on disk, buffer>>.
BufferedWrite(disk, buf, r) ==
    LET b == Append(buf, r)
    IN  IF Len(b) >= BufCap
        THEN << [disk EXCEPT !.data = @ \o b], << >> >>
        ELSE << disk, b >>

\* (mutant) The stream is dropped without being closed.
CloseWithoutFlush(disk, buf) == disk

\* Line 319: ~ofstream closes the stream, which writes the buffer out.
CloseFlush(disk, buf) == [disk EXCEPT !.data = @ \o buf]

\* The call: parameters bound, locals not yet constructed.
WdEnter(name, c, r) ==
    /\ pc' = "wd_open"
    /\ ret' = r
    /\ file_name' = name
    /\ calculator' = c
    /\ wd_runs' = [wd_runs EXCEPT ![c] = @ + 1]
    /\ runs' = runs + 1
    /\ out_open' = FALSE
    /\ out_fail' = FALSE
    /\ out_buf' = << >>
    /\ f' = 0
    /\ samples' = << >>
    /\ nwrites' = 0

\* Lines 305-308, the open succeeds.
WdOpenOk ==
    /\ pc = "wd_open"
    /\ files' = [files EXCEPT ![file_name] = OpenTruncate(@)]
    /\ out_open' = TRUE
    /\ out_fail' = FALSE
    /\ f' = Lit(0)
    /\ pc' = "wd_loop"
    /\ UNCHANGED <<ret, main_pc, console, wd_runs, tc_runs, runs, open_fails,
                   file_name, calculator, out_buf, samples, nwrites, last,
                   tc_vars>>

\* Lines 305-308, the open fails (no permission, no such directory, disk
\* full): the constructor sets failbit and returns; nothing tests it.
WdOpenFail ==
    /\ pc = "wd_open"
    /\ open_fails < MaxOpenFails
    /\ open_fails' = open_fails + 1
    /\ out_open' = FALSE
    /\ out_fail' = TRUE
    /\ f' = Lit(0)
    /\ pc' = "wd_loop"
    /\ UNCHANGED <<ret, main_pc, console, files, wd_runs, tc_runs, runs,
                   file_name, calculator, out_buf, samples, nwrites, last,
                   tc_vars>>

\* Lines 310-316: one pass of the do-while body and its condition.  A write
\* on a stream in the error state does nothing.
WdIter ==
    /\ pc = "wd_loop"
    /\ LET r == Record(calculator, f)
           w == BufferedWrite(files[file_name], out_buf, r)
       IN  IF out_open /\ ~out_fail
           THEN /\ files' = [files EXCEPT ![file_name] = w[1]]
                /\ out_buf' = w[2]
           ELSE UNCHANGED <<files, out_buf>>
    /\ nwrites' = nwrites + 1
    /\ samples' = Append(samples, f)
    /\ f' = FAdd(f, interval)
    /\ pc' = IF WdCond(f') THEN "wd_loop" ELSE "wd_report"
    /\ UNCHANGED <<ret, main_pc, console, wd_runs, tc_runs, runs, open_fails,
                   file_name, calculator, out_open, out_fail, last, tc_vars>>

\* Line 318.
WdReport ==
    /\ pc = "wd_report"
    /\ console' = Append(console, <<file_name, " written">>)
    /\ pc' = "wd_close"
    /\ UNCHANGED <<ret, main_pc, files, wd_runs, tc_runs, runs, open_fails,
                   calculator, wd_vars, last, tc_vars>>

\* Line 319: the locals are destroyed, out among them, and control returns.
WdReturn ==
    /\ pc = "wd_close"
    /\ files' = IF out_open
                THEN [files EXCEPT ![file_name] = CloseFlush(@, out_buf)]
                ELSE files
    /\ out_buf' = << >>
    /\ out_open' = FALSE
    /\ last' = [last EXCEPT ![file_name] =
                   [calc |-> calculator, content |-> files'[file_name]]]
    /\ pc' = ret
    /\ UNCHANGED <<ret, main_pc, console, wd_runs, tc_runs, runs, open_fails,
                   file_name, calculator, out_fail, f, samples, nwrites,
                   tc_vars>>

---------------------------------------------------------------------------
(* time_calculations (lines 273-291; lines 32-49 are the same loop).       *)

\* std::numeric_limits<std::uint32_t>::max()
UINT32_MAX == Pow(2, Bits) - 1

\* (mutant) A cast to a type one bit narrower.
static_cast_narrow(x) == x % Pow(2, Bits - 1)

\* static_cast<std::uint32_t> of a std::size_t.
static_cast_uint32(x) == x % Pow(2, Bits)

\* ++i on a std::size_t.
Increment(x) == (x + 1) % Pow(2, 2 * Bits)

\* The fields of a float: one sign bit, then the exponent, then the fraction.
FracBits == (Bits - 1) \div 2
ExpBits == Bits - 1 - FracBits

\* std::bit_cast<float>: the float whose representation is the pattern n.
bit_cast_float(n) ==
    [sign |-> n \div Pow(2, Bits - 1),
     exp  |-> (n \div Pow(2, FracBits)) % Pow(2, ExpBits),
     frac |-> n % Pow(2, FracBits)]

\* The pattern of a float.
ToBits(x) == (x.sign * Pow(2, ExpBits) + x.exp) * Pow(2, FracBits) + x.frac

IsNaN(x) == x.exp = Pow(2, ExpBits) - 1 /\ x.frac # 0
IsInf(x) == x.exp = Pow(2, ExpBits) - 1 /\ x.frac = 0

\* Line 278: the loop's condition.
TcCond(x) == x < UINT32_MAX

\* Lines 276, 278: the call, time = 0ns and i = 0.
TcEnter(c, r) ==
    /\ pc' = "tc_loop"
    /\ ret' = r
    /\ calculator' = c
    /\ tc_runs' = [tc_runs EXCEPT ![c] = @ + 1]
    /\ runs' = runs + 1
    /\ time' = 0
    /\ i' = 0
    /\ calls' = << >>
    /\ result' = 0

\* Lines 278-288: one pass of the body.  high_resolution_clock is not
\* required to be steady (it is system_clock in libstdc++ and libc++), so
\* its two readings are any two values.
TcIter ==
    /\ pc = "tc_loop"
    /\ TcCond(i)
    /\ \E start \in Ticks, end \in Ticks :
          LET n == static_cast_uint32(i)
              x == bit_cast_float(n)
          IN  /\ calls' = Append(calls, x)
              /\ time' = time + (end - start)
    /\ i' = Increment(i)
    /\ UNCHANGED <<pc, ret, main_pc, console, files, wd_runs, tc_runs, runs,
                   open_fails, calculator, wd_vars, last, result>>

\* Line 290.
TcReturn ==
    /\ pc = "tc_loop"
    /\ ~TcCond(i)
    /\ result' = time
    /\ pc' = ret
    /\ UNCHANGED <<ret, main_pc, console, files, wd_runs, tc_runs, runs,
                   open_fails, calculator, wd_vars, last, i, time, calls>>

---------------------------------------------------------------------------
(* main's steps.                                                           *)

AtStmt(op) ==
    /\ pc = "main"
    /\ main_pc <= Len(MainProgram)
    /\ MainProgram[main_pc].op = op

\* Lines 325, 337, 339, 355.
MainPrint ==
    /\ AtStmt("print")
    /\ console' = Append(console, <<MainProgram[main_pc].arg>>)
    /\ main_pc' = main_pc + 1
    /\ UNCHANGED <<pc, ret, files, wd_runs, tc_runs, runs, open_fails,
                   calculator, wd_vars, last, tc_vars>>

\* Lines 327-335.
MainWriteData ==
    /\ AtStmt("write_data")
    /\ WdEnter(MainProgram[main_pc].arg, MainProgram[main_pc].calc, "main")
    /\ main_pc' = main_pc + 1
    /\ UNCHANGED <<console, files, tc_runs, open_fails, last, tc_vars>>

\* Lines 341-353: the call of time_calculations ...
MainTime ==
    /\ AtStmt("time")
    /\ TcEnter(MainProgram[main_pc].calc, "main_print")
    /\ UNCHANGED <<main_pc, console, files, wd_runs, open_fails, wd_vars,
                   last>>

\* ... and the line printed with what it returned, a temporary that dies
\* with the statement.
MainPrintDuration ==
    /\ pc = "main_print"
    /\ console' = Append(console, <<MainProgram[main_pc].arg, "ns">>)
    /\ main_pc' = main_pc + 1
    /\ pc' = "main"
    /\ result' = 0
    /\ UNCHANGED <<ret, files, wd_runs, tc_runs, runs, open_fails, calculator,
                   wd_vars, last, i, time, calls>>

\* Line 357.
MainReturn ==
    /\ pc = "main"
    /\ main_pc = Len(MainProgram) + 1
    /\ pc' = "exit"
    /\ UNCHANGED <<ret, main_pc, console, files, wd_runs, tc_runs, runs,
                   open_fails, calculator, wd_vars, last, tc_vars>>

---------------------------------------------------------------------------
(* Test programs: write_data, or time_calculations, called with any         *)
(* arguments, a bounded number of times.                                    *)

HarnessWrite ==
    /\ pc = "idle"
    /\ runs < MaxRuns
    /\ \E name \in HarnessFiles, c \in SingleCalculators :
          WdEnter(name, c, "idle")
    /\ UNCHANGED <<main_pc, console, files, tc_runs, open_fails, last,
                   tc_vars>>

HarnessTime ==
    /\ pc = "idle"
    /\ runs < MaxRuns
    /\ \E c \in Calculators : TcEnter(c, "idle")
    /\ UNCHANGED <<main_pc, console, files, wd_runs, open_fails, wd_vars,
                   last>>

---------------------------------------------------------------------------
(* Specifications.                                                         *)

InitLocals ==
    /\ ret = ""
    /\ main_pc = 1
    /\ console = << >>
    /\ wd_runs = [c \in Calculators |-> 0]
    /\ tc_runs = [c \in Calculators |-> 0]
    /\ runs = 0
    /\ open_fails = 0
    /\ file_name = ""
    /\ calculator = ""
    /\ out_open = FALSE
    /\ out_fail = FALSE
    /\ out_buf = << >>
    /\ f = 0
    /\ samples = << >>
    /\ nwrites = 0
    /\ last = [n \in FileNames |-> NoRun]
    /\ i = 0
    /\ time = 0
    /\ calls = << >>
    /\ result = 0

\* The program, started in a directory that holds none of the artifacts.
Init ==
    /\ pc = "main"
    /\ files = [n \in FileNames |-> NoFile]
    /\ InitLocals

WdNext == WdOpenOk \/ WdOpenFail \/ WdIter \/ WdReport \/ WdReturn
TcNext == TcIter \/ TcReturn

Next ==
    \/ MainPrint
    \/ MainWriteData
    \/ MainTime
    \/ MainPrintDuration
    \/ MainReturn
    \/ WdNext
    \/ TcNext

Spec == Init /\ [][Next]_vars

\* The program is the only thread and nothing suspends it.
FairSpec == Spec /\ WF_vars(Next)

\* write_data under test; the artifact may exist already.
InitWrite ==
    /\ pc = "idle"
    /\ files \in [FileNames -> {NoFile, Stale}]
    /\ \A n \in FileNames \ HarnessFiles : files[n] = NoFile
    /\ InitLocals

NextWrite == HarnessWrite \/ WdNext

SpecWrite == InitWrite /\ [][NextWrite]_vars

\* time_calculations under test.
InitTime ==
    /\ pc = "idle"
    /\ files = [n \in FileNames |-> NoFile]
    /\ InitLocals

NextTime == HarnessTime \/ TcNext

SpecTime == InitTime /\ [][NextTime]_vars


---------------------------------------------------------------------------
(* Properties.                                                             *)

InWriteData == pc \in {"wd_open", "wd_loop", "wd_report", "wd_close"}
Returned == pc \in {"idle", "main"} /\ runs > 0
OnDisk == files[file_name].data

\* C1: a run of time_calculations has passed every one of the 2^Bits
\* patterns to the calculator, the last pattern (all ones) among them.
C1_EveryPatternVisited ==
    (pc = "idle" /\ runs > 0) =>
        /\ Len(calls) = Pow(2, Bits)
        /\ \E k \in DOMAIN calls : ToBits(calls[k]) = UINT32_MAX

\* C2: the k-th call of a run (k from 0) gets the float whose pattern is k:
\* ascending from 0, nothing twice, nothing left out or treated specially.
C2_AscendingPatterns ==
    /\ Len(calls) = i
    /\ \A k \in DOMAIN calls : ToBits(calls[k]) = k - 1

C2_Witness ==
    /\ pc = "idle"
    /\ runs > 0
    /\ \E k \in DOMAIN calls : IsNaN(calls[k])
    /\ \E k \in DOMAIN calls : IsInf(calls[k])
    /\ \E k \in DOMAIN calls :
          calls[k].sign = 1 /\ calls[k].exp = 0 /\ calls[k].frac = 0

\* C3: a run whose open failed takes no sample and reports nothing written.
C3_AbortOnOpenFailure ==
    out_fail => (nwrites = 0 /\ pc # "wd_report" /\ pc # "wd_close")

\* C4 as stated: a run whose stream opened has appended floor(2pi/step) + 2
\* records when its loop ends.
C4_FloorPlusTwo ==
    (pc = "wd_report" /\ ~out_fail) =>
        Len(OnDisk) + Len(out_buf) = (TwoPi \div interval) + 2

\* The number of terms of 0, 0+step, (0+step)+step, ... from x on that do
\* not exceed 2pi.
RECURSIVE TermsUpTo(_)
TermsUpTo(x) == IF x > TwoPi THEN 0 ELSE 1 + TermsUpTo(FAdd(x, interval))
SampleCount == 1 + TermsUpTo(FAdd(Lit(0), interval))

\* C4 as amended: when the loop ends, the samples are 0, 0+step, ... (each
\* sum rounded to a float), all of them at most 2pi; the first value above
\* 2pi ends the loop and is not sampled; their number does not depend on the
\* calculator; and an open stream has taken that many records.
C4_SamplesUpToLimit ==
    pc \in {"wd_report", "wd_close"} =>
        /\ nwrites = Len(samples)
        /\ nwrites = SampleCount
        /\ samples[1] = 0
        /\ \A k \in 1 .. Len(samples) - 1 :
              samples[k + 1] = FAdd(samples[k], interval)
        /\ \A k \in DOMAIN samples : samples[k] <= TwoPi
        /\ f > TwoPi
        /\ f = FAdd(samples[Len(samples)], interval)
        /\ ~out_fail => Len(OnDisk) + Len(out_buf) = nwrites

C4_Witness ==
    /\ pc = "wd_report"
    /\ ~out_fail
    /\ calculator = "chebyshev_2_calculator"
    /\ nwrites > 2
    /\ Len(OnDisk) + Len(out_buf) = nwrites

\* C5: the total never decreases when one more call is timed, and the
\* duration returned is not negative.
C5_NonNegativeNonDecreasing ==
    [][/\ (pc = "tc_loop" /\ pc' = "tc_loop") => time' >= time
       /\ (pc = "tc_loop" /\ pc' # "tc_loop") => result' >= 0]_vars

\* C6: main calls write_data once with every one-float calculator it names
\* but the baseline, and never with the baseline or a pair calculator; it
\* calls time_calculations once with every calculator it names; and a call
\* has returned, its stream closed, before the next statement starts.
C6_DriverRuns ==
    /\ \A c \in Calculators : wd_runs[c] <= 1 /\ tc_runs[c] <= 1
    /\ \A c \in PairCalculators \cup {"standard_calculator"} : wd_runs[c] = 0
    /\ pc = "exit" =>
          /\ \A c \in Calculators : tc_runs[c] = 1
          /\ \A c \in SingleCalculators \ {"standard_calculator"} :
                wd_runs[c] = 1
          /\ {c \in Calculators : wd_runs[c] > 0} =
                {c \in SingleCalculators : tc_runs[c] > 0}
                    \ {"standard_calculator"}
    /\ pc \in {"main", "main_print", "exit"} =>
          /\ ~out_open
          /\ out_buf = << >>
          /\ \A k \in 1 .. main_pc - 1 :
                /\ MainProgram[k].op = "write_data" =>
                      last[MainProgram[k].arg].calc = MainProgram[k].calc
                /\ MainProgram[k].op = "time" => ~TcCond(i)

C6_Witness ==
    /\ pc = "exit"
    /\ wd_runs["chebyshev_3_calculator"] = 1
    /\ tc_runs["standard_calculator"] = 1
    /\ tc_runs["asm_sin_cos_calculator"] = 1

\* C7: a write_data run leaves in its file what the previous run of the same
\* calculator on the same file left there.
C7_SameArtifact ==
    [][(pc = "wd_close" /\ pc' # "wd_close"
            /\ last[file_name].calc = calculator)
          => files'[file_name] = last[file_name].content]_vars

\* C8: with the baseline as the candidate every record of the run, on disk
\* or still in the stream buffer, is zero.
C8_BaselineAllZero ==
    (calculator = "standard_calculator" /\ ~out_fail
        /\ pc \in {"wd_loop", "wd_report", "wd_close", "idle"}) =>
        /\ Len(OnDisk) + Len(out_buf) = nwrites
        /\ \A k \in DOMAIN OnDisk : OnDisk[k] = 0
        /\ \A k \in DOMAIN out_buf : out_buf[k] = 0

C8_Witness ==
    /\ calculator = "standard_calculator"
    /\ pc = "idle"
    /\ ~out_fail
    /\ Len(OnDisk) > BufCap

\* C9 as stated: once "written" is reported the stream is closed and nothing
\* is left in its buffer.
C9_ClosedBeforeReport ==
    pc = "wd_close" => (~out_open /\ out_buf = << >>)

\* C9 as amended: the stream is open from the start of the run exactly if the
\* open succeeded; when write_data has returned the stream is closed, its
\* buffer is empty and the file holds every record written.  ("written" is
\* printed before that.)
C9_ClosedOnReturn ==
    /\ pc \in {"wd_loop", "wd_report", "wd_close"} => (out_open <=> ~out_fail)
    /\ Returned =>
          /\ ~out_open
          /\ out_buf = << >>
          /\ (file_name # "" /\ ~out_fail) =>
                (files[file_name].exists /\ Len(OnDisk) = nwrites)

C9_Witness ==
    /\ pc = "idle"
    /\ file_name # ""
    /\ ~out_fail
    /\ nwrites % BufCap # 0
    /\ Len(OnDisk) = nwrites

\* C10: in time_calculations i goes up by one per pass and stays within
\* UINT32_MAX; in write_data f goes up on every pass and the loop ends on the
\* first f above 2pi; every run returns, and main reaches its end.
C10_Terminates ==
    /\ [][(pc = "tc_loop" /\ pc' = "tc_loop") =>
              (i' = i + 1 /\ i' <= UINT32_MAX)]_vars
    /\ [][(pc = "wd_loop" /\ pc' \in {"wd_loop", "wd_report"}) =>
              (f' > f /\ (pc' = "wd_report" <=> f' > TwoPi))]_vars
    /\ (pc = "tc_loop") ~> (pc = "main_print")
    /\ (pc = "wd_loop") ~> (pc = "main")
    /\ <>(pc = "exit")

C10_Witness ==
    /\ pc = "exit"
    /\ i = UINT32_MAX
    /\ f > TwoPi
    /\ Len(samples) > 2

===========================================================================
